---- MODULE Spec2Model ----
(***************************************************************************)
(* EdgeTune dashboard client: the useWebSocket hook                        *)
(* (frontend/src/hooks/useWebSocket.ts).                                   *)
(*                                                                         *)
(* The hook owns one React component instance's connection state (refs),   *)
(* the published sinks (React state) and the frame-subscriber registry.    *)
(* Everything runs on one event loop: every action below is one handler    *)
(* or one environment event, run to completion.                            *)
(***************************************************************************)
EXTENDS Integers, Sequences, FiniteSets, TLC

(* ------------------------------------------------------------------ *)
(* Program constants                                                  *)
(* ------------------------------------------------------------------ *)
MAX_HISTORY == 120
MAX_DECISIONS == 50
MAX_EXPLANATIONS == 50
MAX_SUGGESTIONS == 20
BASE_DELAY_MS == 1000
MAX_DELAY_MS == 30000
\* useState(null): the empty value of a latest-value slot; payloads are >= 1.
Null == 0
\* setTimeout(..., 300) of the confidence slider
DEBOUNCE_MS == 300
\* The value of msg.data when the decoded JSON has no data field (no payload is negative).
Undefined == -1
\* The value of msg.type when the decoded JSON has no type field: it equals no case label.
NoTag == "undefined"

(* ------------------------------------------------------------------ *)
(* Bounds of the model                                                *)
(* ------------------------------------------------------------------ *)
\* WebSocket objects not yet CLOSED plus pending reconnection timers, at one time.
MaxSockets == 2
\* Cap on retriesRef (the code has no retry limit).
MaxRetries == 7
\* Envelopes the server broadcasts in one behaviour of Spec.
ConnEnvelopes == 1
\* Envelopes the server broadcasts in one behaviour of SpecRouter.
MaxEnvelopes == 3
\* Frames buffered on one transport, sent and not yet dispatched.
MaxInFlight == 1
\* Envelopes of the flooded type beyond its stream's capacity (SpecStreams).
MaxOverflow == 10
\* Frames of any kind, malformed ones included, in the decoding specification.
MaxFrames == 2
\* Distinct callbacks passed to subscribeToFrames in the publisher specification.
MaxSubscribers == 2
\* Calls of subscribeToFrames in the publisher specification.
MaxTokens == 2
\* Space key presses handled by the dashboard.
MaxKeys == 2
\* Control requests of the dashboard awaiting their answer at one time.
MaxRequests == 2
\* Frames one VideoFeed receives in the video feed specification.
MaxFeedFrames == 4
\* Change events of the confidence slider in the slider specification.
MaxChanges == 4
\* The step of the clock of the slider specification, in milliseconds.
TickMs == 100
\* Frame callbacks that components may register.
NumCallbacks == 1

(* ------------------------------------------------------------------ *)
(* Message contract (README "WebSocket (/ws)", WsMessage)             *)
(* ------------------------------------------------------------------ *)
StreamTypes == {"telemetry", "autopilot_decision", "llm_explanation", "advisor_suggestion"}
SlotTypes == {"detection_summary", "source_progress"}
RoutedTypes == StreamTypes \cup SlotTypes \cup {"video_frame", "status"}
\* The traffic of Spec: a bounded stream and the frame publisher.
ConnTypes == {"telemetry", "video_frame"}
\* Tags the switch has no case for: the keep-alive pair and a tag of a later server.
UnroutedTypes == {"ping", "pong", "unknown_tag"}
FrameTypes == RoutedTypes \cup UnroutedTypes
Callbacks == 1..NumCallbacks
\* The callbacks of the components that subscribe while frames are published.
Subscribers == 1..MaxSubscribers
\* No forEach over the frame listeners is running.
Idle == [active |-> FALSE, frame |-> Null, todo |-> <<>>, atStart |-> <<>>,
         called |-> <<>>, removed |-> {}]
\* The one component that subscribes in Spec.
ConnCallbacks == {1}

VARIABLES
    effectActive,      \* the mount effect has run and its cleanup has not
    mountedRef,        \* mountedRef.current
    wsRef,             \* wsRef.current: its position in sockets; 0 when null or when
                       \* its socket is CLOSED (wsRef.current?.close() is a no-op in both)
    retriesRef,        \* retriesRef.current
    sockets,           \* readyState of every WebSocket not yet CLOSED, in creation order
    inflight,          \* per socket: frames the server sent, not yet dispatched
    reconnectTimers,   \* pending setTimeout(connect, delay): the delays, in creation order
    connected,
    telemetry,
    telemetryHistory,
    decisions,
    explanations,
    suggestions,
    detectionSummary,
    sourceProgress,
    notification,
    notifTimers,       \* pending setTimeout(() => setNotification(null), 5000), FIFO
    frameListeners,    \* frameListenersRef.current: a Set, kept in insertion order
    sent,              \* envelopes the server has broadcast (the next payload is sent + 1)
    sentOf,            \* per envelope type: how many the server has broadcast
    arrived,           \* history: per stream type, payloads dispatched since the last reset
    delays,            \* history: delays scheduled since the last Open (or construction)
    tornDown,          \* history: per socket, whether a teardown began while it existed
    staleTimers,       \* history: per pending timer, whether a teardown began while it was pending
    frameLog,          \* history: per callback, the frames it was invoked with
    publish,           \* the forEach over the frame listeners that is running, if any
    tokens,            \* the unsubscribe functions subscribeToFrames has returned
    uncaught,          \* an exception has left a handler of the hook
    running,           \* DashboardPage: useState(false)
    pendingReqs,       \* DashboardPage: control requests awaiting the server's answer
    keys,              \* history: Space key presses handled outside text inputs
    ui                 \* the state of the page and of its components, by component:
                       \* toast: DashboardPage, the decision toast:
                       \*   decisionToast: useState(null), the toast's decision
                       \*   timer: a setTimeout(() => setDecisionToast(null), 4000) is pending
                       \*   lastDecisionCount: lastDecisionCount.current
                       \*   deps: the ws.decisions array the toast effect last ran with
                       \*   cleanup: the effect's last run returned its clearTimeout cleanup
                       \* modeSel: the mode selection:
                       \*   active: ModeSelector useState("balanced"), the highlighted mode
                       \*   currentMode: DashboardPage useState("balanced")
                       \*   reqs: api.setAutopilotMode requests awaiting the server's answer
                       \*   serverMode: the mode of the last request the server accepted
                       \* page: DashboardPage, its effects:
                       \*   health: the api.health() request of the mount effect
                       \*   notifDeps: the ws.notification the notification effect last ran with
                       \*   lastSettled: history, the control request answered last, and how
                       \* feed: VideoFeed, the closure of its frame effect:
                       \*   latest: let latest, the frame waiting to be decoded
                       \*   rendering: let rendering
                       \*   activated: let activated (setHasFrame(true) has run)
                       \*   decodes: the frames of the Images whose decode is in flight
                       \*   drawn: history, the frames drawn on the canvas, in drawing order
                       \*   received: history, frames the callback was invoked with
                       \*   bad: the frames received whose JPEG data does not decode
                       \* slider: ConfidenceSlider:
                       \*   value: useState(0.25), in hundredths
                       \*   timerRef: timerRef.current, the id of the timer created last, or Null
                       \*   timers: the pending debounce timers: id, time left, value captured
                       \*   sent: the confidence thresholds of the configure requests sent
                       \*   changes: history, change events of the slider (the timer ids)
                       \*   gap: history, time since the last change event, up to DEBOUNCE_MS
                       \*   burstLast: history, per burst of changes, the value of its last change

connVars == <<effectActive, mountedRef, wsRef, retriesRef, sockets, inflight,
              reconnectTimers, connected>>
streamVars == <<telemetryHistory, decisions, explanations, suggestions>>
slotVars == <<telemetry, detectionSummary, sourceProgress>>
sinkVars == <<streamVars, slotVars, notification>>
envVars == <<sent, sentOf>>
histVars == <<arrived, delays, tornDown, staleTimers, frameLog>>
pubVars == <<publish, tokens, uncaught>>
dashVars == <<running, pendingReqs, keys>>
uiVars == <<ui>>
toast == ui.toast
modeSel == ui.modeSel
page == ui.page
feed == ui.feed
slider == ui.slider
appVars == <<pubVars, dashVars, uiVars>>
vars == <<connVars, sinkVars, notifTimers, frameListeners, envVars, histVars, appVars>>

(* ------------------------------------------------------------------ *)
(* Helpers                                                            *)
(* ------------------------------------------------------------------ *)
Min(a, b) == IF a < b THEN a ELSE b

RECURSIVE Pow2(_)
\* Math.pow(2, n) for a non-negative integer n
Pow2(n) == IF n = 0 THEN 1 ELSE 2 * Pow2(n - 1)

\* Array.prototype.slice(-n): the last n elements (all of them when shorter)
SliceLast(s, n) ==
    IF Len(s) <= n THEN s ELSE SubSeq(s, Len(s) - n + 1, Len(s))

\* Mutant: the truncation is forgotten.
BoundedAppendNoEvict(prev, x, cap) == Append(prev, x)

\* Mutant: truncation keeps the head (slice(0, cap)) and so drops the newest record.
BoundedAppendKeepsHead(prev, x, cap) ==
    LET next == Append(prev, x)
    IN  IF Len(next) > cap THEN SubSeq(next, 1, cap) ELSE next

\* (prev) => { const next = [...prev, x];
\*             return next.length > cap ? next.slice(-cap) : next; }
BoundedAppend(prev, x, cap) ==
    LET next == Append(prev, x)
    IN  IF Len(next) > cap THEN SliceLast(next, cap) ELSE next

Range(s) == {s[i] : i \in 1..Len(s)}
RemoveAt(s, i) == SubSeq(s, 1, i - 1) \o SubSeq(s, i + 1, Len(s))
IsLive(st) == st \in {"CONNECTING", "OPEN"}
Live == {i \in 1..Len(sockets) : IsLive(sockets[i])}

\* The capacity of the stream an envelope type is routed to.
CapOf(t) ==
    CASE t = "telemetry" -> MAX_HISTORY
      [] t = "autopilot_decision" -> MAX_DECISIONS
      [] t = "llm_explanation" -> MAX_EXPLANATIONS
      [] t = "advisor_suggestion" -> MAX_SUGGESTIONS

StreamOf(t) ==
    CASE t = "telemetry" -> telemetryHistory
      [] t = "autopilot_decision" -> decisions
      [] t = "llm_explanation" -> explanations
      [] t = "advisor_suggestion" -> suggestions

(* ------------------------------------------------------------------ *)
(* Initial state: the hook after its first render, before any effect  *)
(* ------------------------------------------------------------------ *)
Init ==
    /\ effectActive = FALSE
    /\ mountedRef = TRUE
    /\ wsRef = 0
    /\ retriesRef = 0
    /\ sockets = <<>>
    /\ inflight = <<>>
    /\ reconnectTimers = <<>>
    /\ connected = FALSE
    /\ telemetry = Null
    /\ telemetryHistory = <<>>
    /\ decisions = <<>>
    /\ explanations = <<>>
    /\ suggestions = <<>>
    /\ detectionSummary = Null
    /\ sourceProgress = Null
    /\ notification = Null
    /\ notifTimers = <<>>
    /\ frameListeners = <<>>
    /\ sent = 0
    /\ sentOf = [t \in FrameTypes |-> 0]
    /\ arrived = [t \in StreamTypes |-> <<>>]
    /\ delays = <<>>
    /\ tornDown = <<>>
    /\ staleTimers = <<>>
    /\ frameLog = [c \in Callbacks \cup Subscribers |-> <<>>]
    /\ publish = Idle
    /\ tokens = <<>>
    /\ uncaught = FALSE
    /\ running = FALSE
    /\ pendingReqs = <<>>
    /\ keys = 0
    /\ ui = [toast |-> [decisionToast |-> Null, timer |-> FALSE, lastDecisionCount |-> 0,
                        deps |-> <<>>, cleanup |-> FALSE],
             modeSel |-> [active |-> "balanced", currentMode |-> "balanced",
                          reqs |-> <<>>, serverMode |-> "balanced"],
             page |-> [health |-> "idle", notifDeps |-> Null,
                       lastSettled |-> <<"none", FALSE>>],
             feed |-> [latest |-> Null, rendering |-> FALSE, activated |-> FALSE,
                       decodes |-> <<>>, drawn |-> <<>>, received |-> 0, bad |-> {}],
             slider |-> [value |-> 25, timerRef |-> Null, timers |-> <<>>, sent |-> <<>>,
                         changes |-> 0, gap |-> DEBOUNCE_MS, burstLast |-> <<>>]]

(* ------------------------------------------------------------------ *)
(* connect and the handlers it installs                               *)
(* ------------------------------------------------------------------ *)
\* connect(), called while mountedRef.current is m:
\*   if (!mountedRef.current) return;
\*   const ws = new WebSocket(WS_URL); wsRef.current = ws;
Connect(m) ==
    IF ~m
    THEN UNCHANGED <<sockets, inflight, wsRef, tornDown>>
    ELSE /\ sockets' = Append(sockets, "CONNECTING")
         /\ inflight' = Append(inflight, <<>>)
         /\ tornDown' = Append(tornDown, FALSE)
         /\ wsRef' = Len(sockets) + 1

\* WebSocket.close(): a live socket starts closing and dispatches no further
\* message events; its close event is delivered later. Otherwise a no-op.
CloseSocket(s) ==
    IF s # 0 /\ IsLive(sockets[s])
    THEN /\ sockets' = [sockets EXCEPT ![s] = "CLOSING"]
         /\ inflight' = [inflight EXCEPT ![s] = <<>>]
    ELSE UNCHANGED <<sockets, inflight>>

\* Mutant: the cap is forgotten.
DelayUncapped(r) == BASE_DELAY_MS * Pow2(r)

\* Math.min(1000 * Math.pow(2, retriesRef.current), 30000)
Delay(r) == Min(BASE_DELAY_MS * Pow2(r), MAX_DELAY_MS)

\* useEffect body: mountedRef.current = true; connect();
\* It runs at the first mount and again after a cleanup of the same component
\* instance (React re-runs the effect with the same refs, as StrictMode does).
\* The first conjunct is the MaxSockets bound.
Mount ==
    /\ ~effectActive
    /\ Len(sockets) + Len(reconnectTimers) < MaxSockets
    /\ effectActive' = TRUE
    /\ mountedRef' = TRUE
    /\ Connect(TRUE)
    /\ UNCHANGED <<retriesRef, reconnectTimers, connected, sinkVars, notifTimers,
                   frameListeners, envVars, arrived, delays, staleTimers, frameLog, appVars>>

\* useEffect cleanup: mountedRef.current = false; wsRef.current?.close();
Unmount ==
    /\ effectActive
    /\ effectActive' = FALSE
    /\ mountedRef' = FALSE
    /\ CloseSocket(wsRef)
    /\ tornDown' = [s \in 1..Len(sockets) |-> TRUE]
    /\ staleTimers' = [i \in 1..Len(reconnectTimers) |-> TRUE]
    /\ UNCHANGED <<wsRef, retriesRef, reconnectTimers, connected, sinkVars, notifTimers,
                   frameListeners, envVars, arrived, delays, frameLog, appVars>>

\* Mutant: onopen forgets to reset the retry counter.
OnOpenKeepsRetries(s) ==
    /\ sockets[s] = "CONNECTING"
    /\ sockets' = [sockets EXCEPT ![s] = "OPEN"]
    /\ connected' = TRUE
    /\ UNCHANGED retriesRef
    /\ delays' = <<>>
    /\ UNCHANGED <<effectActive, mountedRef, wsRef, inflight, reconnectTimers, sinkVars,
                   notifTimers, frameListeners, envVars, arrived, tornDown, staleTimers,
                   frameLog, appVars>>

\* Mutant: onopen starts a fresh session and clears the telemetry history.
OnOpenClearsHistory(s) ==
    /\ sockets[s] = "CONNECTING"
    /\ sockets' = [sockets EXCEPT ![s] = "OPEN"]
    /\ connected' = TRUE
    /\ retriesRef' = 0
    /\ delays' = <<>>
    /\ telemetryHistory' = <<>>
    /\ UNCHANGED <<effectActive, mountedRef, wsRef, inflight, reconnectTimers, decisions,
                   explanations, suggestions, slotVars, notification, notifTimers,
                   frameListeners, envVars, arrived, tornDown, staleTimers,
                   frameLog, appVars>>

\* The handshake of socket s succeeds; ws.onopen runs:
\*   setConnected(true); retriesRef.current = 0;
OnOpen(s) ==
    /\ sockets[s] = "CONNECTING"
    /\ sockets' = [sockets EXCEPT ![s] = "OPEN"]
    /\ connected' = TRUE
    /\ retriesRef' = 0
    /\ delays' = <<>>
    /\ UNCHANGED <<effectActive, mountedRef, wsRef, inflight, reconnectTimers, sinkVars,
                   notifTimers, frameListeners, envVars, arrived, tornDown, staleTimers,
                   frameLog, appVars>>

\* Mutant: onerror closes the socket and also schedules a reconnection itself.
OnErrorAlsoReconnects(s) ==
    /\ IsLive(sockets[s])
    /\ CloseSocket(s)
    /\ reconnectTimers' = Append(reconnectTimers, Delay(retriesRef))
    /\ staleTimers' = Append(staleTimers, FALSE)
    /\ UNCHANGED <<effectActive, mountedRef, wsRef, retriesRef, connected,
                   sinkVars, notifTimers, frameListeners, envVars, arrived, delays,
                   tornDown, frameLog, appVars>>

\* A transport error on socket s (frames still buffered are lost); ws.onerror
\* runs: ws.close();
OnError(s) ==
    /\ IsLive(sockets[s])
    /\ CloseSocket(s)
    /\ UNCHANGED <<effectActive, mountedRef, wsRef, retriesRef, reconnectTimers, connected,
                   sinkVars, notifTimers, frameListeners, envVars, histVars, appVars>>

\* The server closes socket s, or refuses its handshake. The transport is in-order
\* and reliable: the frames sent before the close have been dispatched. No handler
\* of the hook runs yet.
ServerClose(s) ==
    /\ IsLive(sockets[s])
    /\ inflight[s] = <<>>
    /\ sockets' = [sockets EXCEPT ![s] = "CLOSING"]
    /\ UNCHANGED inflight
    /\ UNCHANGED <<effectActive, mountedRef, wsRef, retriesRef, reconnectTimers, connected,
                   sinkVars, notifTimers, frameListeners, envVars, histVars, appVars>>

\* Mutant: onclose gives up after three consecutive failures.
OnCloseGivesUp(s) ==
    /\ sockets[s] = "CLOSING"
    /\ sockets' = RemoveAt(sockets, s)
    /\ inflight' = RemoveAt(inflight, s)
    /\ tornDown' = RemoveAt(tornDown, s)
    /\ wsRef' = IF wsRef = s THEN 0 ELSE IF wsRef > s THEN wsRef - 1 ELSE wsRef
    /\ connected' = FALSE
    /\ IF ~mountedRef \/ retriesRef >= 3
       THEN UNCHANGED <<retriesRef, reconnectTimers, delays, staleTimers>>
       ELSE /\ retriesRef' = retriesRef + 1
            /\ reconnectTimers' = Append(reconnectTimers, Delay(retriesRef))
            /\ delays' = Append(delays, Delay(retriesRef))
            /\ staleTimers' = Append(staleTimers, FALSE)
    /\ UNCHANGED <<effectActive, mountedRef, sinkVars, notifTimers,
                   frameListeners, envVars, arrived, frameLog, appVars>>

\* The close event of socket s is delivered; ws.onclose runs (retriesRef is
\* capped by the MaxRetries bound):
\*   setConnected(false);
\*   if (!mountedRef.current) return;
\*   const delay = Math.min(1000 * Math.pow(2, retriesRef.current), 30000);
\*   retriesRef.current++;
\*   setTimeout(connect, delay);
OnClose(s) ==
    /\ sockets[s] = "CLOSING"
    /\ sockets' = RemoveAt(sockets, s)
    /\ inflight' = RemoveAt(inflight, s)
    /\ tornDown' = RemoveAt(tornDown, s)
    /\ wsRef' = IF wsRef = s THEN 0 ELSE IF wsRef > s THEN wsRef - 1 ELSE wsRef
    /\ connected' = FALSE
    /\ IF ~mountedRef
       THEN UNCHANGED <<retriesRef, reconnectTimers, delays, staleTimers>>
       ELSE /\ retriesRef < MaxRetries
            /\ retriesRef' = retriesRef + 1
            /\ reconnectTimers' = Append(reconnectTimers, Delay(retriesRef))
            /\ delays' = Append(delays, Delay(retriesRef))
            /\ staleTimers' = Append(staleTimers, FALSE)
    /\ UNCHANGED <<effectActive, mountedRef, sinkVars, notifTimers,
                   frameListeners, envVars, arrived, frameLog, appVars>>

\* The i-th pending reconnection timer expires: connect() runs.
ReconnectTimerFires(i) ==
    /\ i \in 1..Len(reconnectTimers)
    /\ reconnectTimers' = RemoveAt(reconnectTimers, i)
    /\ staleTimers' = RemoveAt(staleTimers, i)
    /\ Connect(mountedRef)
    /\ UNCHANGED <<effectActive, mountedRef, retriesRef, connected, sinkVars, notifTimers,
                   frameListeners, envVars, arrived, delays, frameLog, appVars>>

(* ------------------------------------------------------------------ *)
(* The server and the message router                                  *)
(* ------------------------------------------------------------------ *)
\* The server sends the text frame f on every connection that is open.
BroadcastFrame(f) ==
    /\ \E s \in 1..Len(sockets) : sockets[s] = "OPEN"
    /\ \A s \in 1..Len(sockets) : Len(inflight[s]) < MaxInFlight
    /\ sent' = sent + 1
    /\ inflight' = [s \in 1..Len(sockets) |->
                      IF sockets[s] = "OPEN" THEN Append(inflight[s], f) ELSE inflight[s]]
    /\ UNCHANGED <<effectActive, mountedRef, wsRef, retriesRef, sockets, reconnectTimers,
                   connected, sinkVars, notifTimers, frameListeners, histVars, appVars>>

\* The server's WebSocket handler broadcasts one envelope {type: t, data: sent + 1}
\* to every connection that is open. Payloads are numbered in sending order
\* (the timestamp field of the payload shapes).
ServerBroadcast(t) ==
    /\ BroadcastFrame([json |-> TRUE, type |-> t, data |-> sent + 1])
    /\ sentOf' = [sentOf EXCEPT ![t] = @ + 1]

\* A frame that is not a well-formed envelope reaches the client: text that is
\* not JSON, JSON without a type tag, or an envelope of type t without its data.
GarbageFrame == [json |-> FALSE, type |-> NoTag, data |-> Undefined]
UntypedFrame == [json |-> TRUE, type |-> NoTag, data |-> Undefined]
BodylessFrame(t) == [json |-> TRUE, type |-> t, data |-> Undefined]
MalformedFrames == {GarbageFrame, UntypedFrame} \cup {BodylessFrame(t) : t \in RoutedTypes}

ServerSendsMalformed(f) ==
    /\ BroadcastFrame(f)
    /\ UNCHANGED sentOf

\* frameListenersRef.current.forEach((cb) => cb(vf.frame))
PublishFrame(frame) ==
    frameLog' = [c \in DOMAIN frameLog |->
                   IF c \in Range(frameListeners)
                   THEN Append(frameLog[c], frame)
                   ELSE frameLog[c]]

\* Mutant: the latest-value slot is written only while the history is below capacity.
OnTelemetrySlotStale(snap) ==
    /\ telemetry' = IF Len(telemetryHistory) < MAX_HISTORY THEN snap ELSE telemetry
    /\ telemetryHistory' = BoundedAppend(telemetryHistory, snap, MAX_HISTORY)
    /\ UNCHANGED <<decisions, explanations, suggestions, detectionSummary,
                   sourceProgress, notification, notifTimers, frameLog, appVars>>

\* case "telemetry": setTelemetry(snap); setTelemetryHistory(bounded append)
OnTelemetry(snap) ==
    /\ telemetry' = snap
    /\ telemetryHistory' = BoundedAppend(telemetryHistory, snap, MAX_HISTORY)
    /\ UNCHANGED <<decisions, explanations, suggestions, detectionSummary,
                   sourceProgress, notification, notifTimers, frameLog, appVars>>

\* case "autopilot_decision": setDecisions(bounded append)
OnDecision(d) ==
    /\ decisions' = BoundedAppend(decisions, d, MAX_DECISIONS)
    /\ UNCHANGED <<telemetry, telemetryHistory, explanations, suggestions,
                   detectionSummary, sourceProgress, notification, notifTimers, frameLog, appVars>>

\* Mutant: the explanation is also appended to the decisions stream.
OnExplanationAlsoDecisions(e) ==
    /\ explanations' = BoundedAppend(explanations, e, MAX_EXPLANATIONS)
    /\ decisions' = BoundedAppend(decisions, e, MAX_DECISIONS)
    /\ UNCHANGED <<telemetry, telemetryHistory, suggestions,
                   detectionSummary, sourceProgress, notification, notifTimers, frameLog, appVars>>

\* case "llm_explanation": setExplanations(bounded append)
OnExplanation(e) ==
    /\ explanations' = BoundedAppend(explanations, e, MAX_EXPLANATIONS)
    /\ UNCHANGED <<telemetry, telemetryHistory, decisions, suggestions,
                   detectionSummary, sourceProgress, notification, notifTimers, frameLog, appVars>>

\* case "video_frame": dispatch directly to subscribers, no React state.
\* Without a data body, reading vf.frame throws in the first callback invocation
\* and the catch of ws.onmessage swallows the error: no subscriber receives anything.
OnVideoFrame(vf) ==
    /\ IF vf = Undefined THEN UNCHANGED frameLog ELSE PublishFrame(vf)
    /\ UNCHANGED <<sinkVars, notifTimers, appVars>>

\* case "advisor_suggestion": setSuggestions(bounded append)
OnSuggestion(sg) ==
    /\ suggestions' = BoundedAppend(suggestions, sg, MAX_SUGGESTIONS)
    /\ UNCHANGED <<telemetry, telemetryHistory, decisions, explanations,
                   detectionSummary, sourceProgress, notification, notifTimers, frameLog, appVars>>

\* Mutant: the slot is filled once and later arrivals are dropped.
OnDetectionSummaryKeepsFirst(d) ==
    /\ detectionSummary' = IF detectionSummary = Null THEN d ELSE detectionSummary
    /\ UNCHANGED <<streamVars, telemetry, sourceProgress, notification, notifTimers,
                   frameLog, appVars>>

\* case "detection_summary": setDetectionSummary(msg.data)
OnDetectionSummary(d) ==
    /\ detectionSummary' = d
    /\ UNCHANGED <<streamVars, telemetry, sourceProgress, notification, notifTimers,
                   frameLog, appVars>>

\* case "source_progress": setSourceProgress(msg.data)
OnSourceProgress(d) ==
    /\ sourceProgress' = d
    /\ UNCHANGED <<streamVars, telemetry, detectionSummary, notification, notifTimers,
                   frameLog, appVars>>

\* Mutant: the notification is set and no auto-clear timer is started.
OnStatusNoTimer(d) ==
    /\ notification' = IF d = Undefined THEN notification ELSE d
    /\ UNCHANGED notifTimers
    /\ UNCHANGED <<streamVars, slotVars, frameLog, appVars>>

\* case "status": setNotification({...}); setTimeout(() => setNotification(null), 5000)
\* The payload d stands for its three fields (status, message, extra), copied
\* together into the slot. Without a data body, reading statusData.status throws
\* before setNotification is called and the catch swallows the error.
OnStatus(d) ==
    /\ notification' = IF d = Undefined THEN notification ELSE d
    /\ notifTimers' = IF d = Undefined THEN notifTimers ELSE Append(notifTimers, d)
    /\ UNCHANGED <<streamVars, slotVars, frameLog, appVars>>

\* Mutant: a default case shows the envelopes of other types as notifications.
DispatchDefaultNotifies(msg) ==
    CASE msg.type = "telemetry" -> OnTelemetry(msg.data)
      [] msg.type = "autopilot_decision" -> OnDecision(msg.data)
      [] msg.type = "llm_explanation" -> OnExplanation(msg.data)
      [] msg.type = "video_frame" -> OnVideoFrame(msg.data)
      [] msg.type = "advisor_suggestion" -> OnSuggestion(msg.data)
      [] msg.type = "detection_summary" -> OnDetectionSummary(msg.data)
      [] msg.type = "source_progress" -> OnSourceProgress(msg.data)
      [] msg.type = "status" -> OnStatus(msg.data)
      [] OTHER -> OnStatus(msg.data)

\* switch (msg.type) { ... } of ws.onmessage, for a decoded envelope; no default case
Dispatch(msg) ==
    CASE msg.type = "telemetry" -> OnTelemetry(msg.data)
      [] msg.type = "autopilot_decision" -> OnDecision(msg.data)
      [] msg.type = "llm_explanation" -> OnExplanation(msg.data)
      [] msg.type = "video_frame" -> OnVideoFrame(msg.data)
      [] msg.type = "advisor_suggestion" -> OnSuggestion(msg.data)
      [] msg.type = "detection_summary" -> OnDetectionSummary(msg.data)
      [] msg.type = "source_progress" -> OnSourceProgress(msg.data)
      [] msg.type = "status" -> OnStatus(msg.data)
      [] OTHER -> UNCHANGED <<sinkVars, notifTimers, frameLog, appVars>>

\* Mutant: no try/catch around JSON.parse.
HandleFrameNoCatch(f) ==
    IF f.json
    THEN Dispatch(f)
    ELSE /\ uncaught' = TRUE
         /\ UNCHANGED <<sinkVars, notifTimers, frameLog, publish, tokens, dashVars, uiVars>>

\* try { const msg = JSON.parse(event.data); switch ... } catch { ignore }:
\* text that is not JSON throws in JSON.parse and nothing else runs.
HandleFrame(f) ==
    IF f.json THEN Dispatch(f) ELSE UNCHANGED <<sinkVars, notifTimers, frameLog, appVars>>

\* The message event of the oldest frame buffered on socket s; ws.onmessage runs.
OnMessage(s) ==
    /\ sockets[s] = "OPEN"
    /\ inflight[s] # <<>>
    /\ inflight' = [inflight EXCEPT ![s] = Tail(@)]
    /\ HandleFrame(Head(inflight[s]))
    /\ arrived' = LET msg == Head(inflight[s])
                  IN  IF msg.json /\ msg.type \in StreamTypes
                      THEN [arrived EXCEPT ![msg.type] = Append(@, msg.data)]
                      ELSE arrived
    /\ UNCHANGED <<effectActive, mountedRef, wsRef, retriesRef, sockets, reconnectTimers,
                   connected, frameListeners, envVars, delays, tornDown, staleTimers>>

\* The oldest pending notification timer expires: setNotification(null)
NotificationTimerFires ==
    /\ notifTimers # <<>>
    /\ notifTimers' = Tail(notifTimers)
    /\ notification' = Null
    /\ UNCHANGED <<connVars, streamVars, slotVars, frameListeners, envVars,
                   histVars, appVars>>

\* Mutant: the reset also empties the frame-subscriber registry.
ResetStateClearsListeners ==
    /\ telemetry' = Null
    /\ telemetryHistory' = <<>>
    /\ decisions' = <<>>
    /\ explanations' = <<>>
    /\ suggestions' = <<>>
    /\ detectionSummary' = Null
    /\ sourceProgress' = Null
    /\ notification' = Null
    /\ arrived' = [t \in StreamTypes |-> <<>>]
    /\ frameListeners' = <<>>
    /\ UNCHANGED <<connVars, notifTimers, envVars, delays, tornDown,
                   staleTimers, frameLog, appVars>>

\* Mutant: the reset forgets the notification.
ResetStateKeepsNotification ==
    /\ telemetry' = Null
    /\ telemetryHistory' = <<>>
    /\ decisions' = <<>>
    /\ explanations' = <<>>
    /\ suggestions' = <<>>
    /\ detectionSummary' = Null
    /\ sourceProgress' = Null
    /\ arrived' = [t \in StreamTypes |-> <<>>]
    /\ UNCHANGED <<connVars, notification, notifTimers, frameListeners, envVars, delays,
                   tornDown, staleTimers, frameLog, appVars>>

\* Mutant: the reset also restarts the retry count of the connection.
ResetStateResetsRetries ==
    /\ telemetry' = Null
    /\ telemetryHistory' = <<>>
    /\ decisions' = <<>>
    /\ explanations' = <<>>
    /\ suggestions' = <<>>
    /\ detectionSummary' = Null
    /\ sourceProgress' = Null
    /\ notification' = Null
    /\ arrived' = [t \in StreamTypes |-> <<>>]
    /\ retriesRef' = 0
    /\ delays' = <<>>
    /\ UNCHANGED <<effectActive, mountedRef, wsRef, sockets, inflight, reconnectTimers,
                   connected, notifTimers, frameListeners, envVars, tornDown,
                   staleTimers, frameLog, appVars>>

\* resetState()
ResetState ==
    /\ telemetry' = Null
    /\ telemetryHistory' = <<>>
    /\ decisions' = <<>>
    /\ explanations' = <<>>
    /\ suggestions' = <<>>
    /\ detectionSummary' = Null
    /\ sourceProgress' = Null
    /\ notification' = Null
    /\ arrived' = [t \in StreamTypes |-> <<>>]
    /\ UNCHANGED <<connVars, notifTimers, frameListeners, envVars, delays, tornDown,
                   staleTimers, frameLog, appVars>>

\* subscribeToFrames(cb): frameListenersRef.current.add(cb)
Subscribe(cb) ==
    /\ cb \notin Range(frameListeners)
    /\ frameListeners' = Append(frameListeners, cb)
    /\ UNCHANGED <<connVars, sinkVars, notifTimers, envVars, histVars, appVars>>

\* The token subscribeToFrames returned: frameListenersRef.current.delete(cb)
Unsubscribe(cb) ==
    /\ cb \in Range(frameListeners)
    /\ frameListeners' = SelectSeq(frameListeners, LAMBDA c : c # cb)
    /\ UNCHANGED <<connVars, sinkVars, notifTimers, envVars, histVars, appVars>>

(* ------------------------------------------------------------------ *)
(* The frame publisher, one callback invocation at a time             *)
(* ------------------------------------------------------------------ *)
\* Set.prototype.add: a value already in the Set keeps its place.
SetAdd(set, cb) == IF cb \in Range(set) THEN set ELSE Append(set, cb)

\* Set.prototype.delete
SetDelete(set, cb) == SelectSeq(set, LAMBDA c : c # cb)

\* subscribeToFrames(cb): frameListenersRef.current.add(cb); returns the function
\* () => frameListenersRef.current.delete(cb). A forEach that is running visits
\* an entry added meanwhile (Set.prototype.forEach).
SubscribeToFrames(cb) ==
    /\ Len(tokens) < MaxTokens
    /\ frameListeners' = SetAdd(frameListeners, cb)
    /\ tokens' = Append(tokens, [cb |-> cb, invoked |-> FALSE])

\* The k-th function subscribeToFrames returned is called:
\* frameListenersRef.current.delete(cb). A forEach that is running does not visit
\* an entry deleted before it was reached.
InvokeToken(k) ==
    /\ frameListeners' = SetDelete(frameListeners, tokens[k].cb)
    /\ tokens' = [tokens EXCEPT ![k].invoked = TRUE]

\* Mutant: forEach iterates over a copy of the Set taken when it started.
ForEachRestOfCopy(todo) == todo

\* The entries the running forEach will still visit, after the listeners changed.
ForEachRest(todo) ==
    SelectSeq(frameListeners', LAMBDA c : c \in Range(todo) \/ c \notin Range(frameListeners))

\* A well-formed video_frame envelope.
IsVideoFrame(f) == f.json /\ f.type = "video_frame" /\ f.data # Undefined

\* ws.onmessage for a video_frame envelope, up to the start of
\* frameListenersRef.current.forEach((cb) => cb(vf.frame)).
BeginPublish(s) ==
    /\ ~publish.active
    /\ sockets[s] = "OPEN"
    /\ inflight[s] # <<>>
    /\ IsVideoFrame(Head(inflight[s]))
    /\ inflight' = [inflight EXCEPT ![s] = Tail(@)]
    /\ publish' = [active |-> TRUE, frame |-> Head(inflight[s]).data,
                   todo |-> frameListeners, atStart |-> frameListeners,
                   called |-> <<>>, removed |-> {}]
    /\ UNCHANGED <<effectActive, mountedRef, wsRef, retriesRef, sockets, reconnectTimers,
                   connected, sinkVars, notifTimers, frameListeners, envVars, histVars,
                   tokens, uncaught, dashVars, uiVars>>

\* forEach calls the next callback with the frame; what the callback does is given
\* by the conjunct the four actions below add.
CallNext ==
    /\ publish.active
    /\ publish.todo # <<>>
    /\ frameLog' = [frameLog EXCEPT ![Head(publish.todo)] = Append(@, publish.frame)]
    /\ UNCHANGED <<connVars, sinkVars, notifTimers, envVars, arrived, delays, tornDown,
                   staleTimers, uncaught, dashVars, uiVars>>

\* The callback returns.
CallbackReturns ==
    /\ CallNext
    /\ publish' = [publish EXCEPT !.todo = Tail(@), !.called = Append(@, Head(publish.todo))]
    /\ UNCHANGED <<frameListeners, tokens>>

\* The callback throws: forEach is abandoned and the catch of ws.onmessage
\* swallows the exception.
CallbackThrows ==
    /\ CallNext
    /\ publish' = [publish EXCEPT !.todo = <<>>, !.called = Append(@, Head(publish.todo))]
    /\ UNCHANGED <<frameListeners, tokens>>

\* The callback subscribes callback cb, then returns.
CallbackSubscribes(cb) ==
    /\ CallNext
    /\ SubscribeToFrames(cb)
    /\ publish' = [publish EXCEPT !.todo = ForEachRest(Tail(@)),
                                  !.called = Append(@, Head(publish.todo))]

\* The callback calls the k-th unsubscribe function, then returns.
CallbackUnsubscribes(k) ==
    /\ CallNext
    /\ InvokeToken(k)
    /\ publish' = [publish EXCEPT !.todo = ForEachRest(Tail(@)),
                                  !.called = Append(@, Head(publish.todo)),
                                  !.removed = @ \cup (Range(frameListeners) \ Range(frameListeners'))]

\* forEach has no entry left (or was abandoned): ws.onmessage returns.
EndPublish ==
    /\ publish.active
    /\ publish.todo = <<>>
    /\ publish' = Idle
    /\ UNCHANGED <<connVars, sinkVars, notifTimers, frameListeners, envVars, histVars,
                   tokens, uncaught, dashVars, uiVars>>

\* A component subscribes callback cb from its effect, outside any publish.
ComponentSubscribes(cb) ==
    /\ ~publish.active
    /\ SubscribeToFrames(cb)
    /\ UNCHANGED <<connVars, sinkVars, notifTimers, envVars, histVars, publish, uncaught,
                   dashVars, uiVars>>

\* A component calls the k-th unsubscribe function, outside any publish.
ComponentUnsubscribes(k) ==
    /\ ~publish.active
    /\ InvokeToken(k)
    /\ UNCHANGED <<connVars, sinkVars, notifTimers, envVars, histVars, publish, uncaught,
                   dashVars, uiVars>>

(* ------------------------------------------------------------------ *)
(* DashboardPage: start, stop and the Space shortcut                  *)
(* ------------------------------------------------------------------ *)
\* The tagName of the element a key event targets.
TargetTags == {"BODY", "INPUT", "TEXTAREA", "SELECT"}

\* The setter calls of resetState(), as its callers handleStart and handleStop
\* run them.
ClearSinks ==
    /\ telemetry' = Null
    /\ telemetryHistory' = <<>>
    /\ decisions' = <<>>
    /\ explanations' = <<>>
    /\ suggestions' = <<>>
    /\ detectionSummary' = Null
    /\ sourceProgress' = Null
    /\ notification' = Null
    /\ arrived' = [t \in StreamTypes |-> <<>>]

\* handleStart, up to its await: ws.resetState(); api.startInference(source, mode)
HandleStart ==
    /\ Len(pendingReqs) < MaxRequests
    /\ ClearSinks
    /\ pendingReqs' = Append(pendingReqs, "start")
    /\ UNCHANGED <<connVars, notifTimers, frameListeners, envVars, delays, tornDown,
                   staleTimers, frameLog, pubVars, running, keys, uiVars>>

\* handleStop, up to its await: api.stopInference()
RequestStop ==
    /\ Len(pendingReqs) < MaxRequests
    /\ pendingReqs' = Append(pendingReqs, "stop")

\* The Stop button, rendered while running, is clicked: handleStop()
HandleStop ==
    /\ running
    /\ RequestStop
    /\ UNCHANGED <<connVars, sinkVars, notifTimers, frameListeners, envVars, histVars,
                   pubVars, running, keys, uiVars>>

\* Mutant: handleStop gives up the running flag whether or not the request succeeds.
RequestSettlesStopAlways(i, ok) ==
    /\ i \in 1..Len(pendingReqs)
    /\ pendingReqs' = RemoveAt(pendingReqs, i)
    /\ ui' = [ui EXCEPT !.page = [page EXCEPT !.lastSettled = <<pendingReqs[i], ok>>]]
    /\ running' = IF pendingReqs[i] = "stop" THEN FALSE ELSE (ok \/ running)
    /\ IF ok /\ pendingReqs[i] = "stop"
       THEN ClearSinks
       ELSE UNCHANGED <<sinkVars, arrived>>
    /\ UNCHANGED <<connVars, notifTimers, frameListeners, envVars, delays, tornDown,
                   staleTimers, frameLog, pubVars, keys>>

\* The i-th pending request is answered (request() throws unless the response is
\* ok); the rest of its handler runs:
\*   start: setRunning(true) after success, console.error after failure;
\*   stop: setRunning(false); ws.resetState() after success, console.error after failure.
RequestSettles(i, ok) ==
    /\ i \in 1..Len(pendingReqs)
    /\ pendingReqs' = RemoveAt(pendingReqs, i)
    /\ ui' = [ui EXCEPT !.page = [page EXCEPT !.lastSettled = <<pendingReqs[i], ok>>]]
    /\ running' = IF ok THEN pendingReqs[i] = "start" ELSE running
    /\ IF ok /\ pendingReqs[i] = "stop"
       THEN ClearSinks
       ELSE UNCHANGED <<sinkVars, arrived>>
    /\ UNCHANGED <<connVars, notifTimers, frameListeners, envVars, delays, tornDown,
                   staleTimers, frameLog, pubVars, keys>>

\* The variables the mount effect and the notification effect of the page
\* leave alone.
notRunVars == <<connVars, sinkVars, notifTimers, frameListeners, envVars, histVars,
                pubVars, pendingReqs, keys>>

\* The mount effect of DashboardPage runs: api.health() is requested.
DashboardMounts ==
    /\ page.health = "idle"
    /\ ui' = [ui EXCEPT !.page = [page EXCEPT !.health = "pending"]]
    /\ UNCHANGED <<running, notRunVars>>

\* The health request is answered:
\*   .then((h) => { if (h.inference_running) setRunning(true); }).catch(() => {})
HealthSettles(ok, inferenceRunning) ==
    /\ page.health = "pending"
    /\ ui' = [ui EXCEPT !.page = [page EXCEPT !.health = "done"]]
    /\ running' = IF ok /\ inferenceRunning THEN TRUE ELSE running
    /\ UNCHANGED notRunVars

\* statusData.status of the status envelopes the server sends.
StatusKinds == {"loading", "ready", "completed", "error"}

\* ws.notification has changed since the notification effect last ran.
NotifEffectPending == notification # page.notifDeps

\* The notification effect runs for a new ws.notification, whose type is kind:
\*   if (ws.notification) {
\*     if (type === "completed") setRunning(false);
\*     if (type === "error") setRunning(false); }
NotificationEffect(kind) ==
    /\ NotifEffectPending
    /\ ui' = [ui EXCEPT !.page = [page EXCEPT !.notifDeps = notification]]
    /\ running' = IF notification \notin {Null, Undefined} /\ kind \in {"completed", "error"}
                  THEN FALSE
                  ELSE running
    /\ UNCHANGED notRunVars

\* handleToggleInference: if (running) handleStop();
HandleToggleInference ==
    IF running THEN RequestStop ELSE UNCHANGED pendingReqs

\* A keydown of " " on an element with tagName tag; handleKey of KeyboardShortcuts
\* runs: it returns at once inside a text input, else calls onToggleInference().
PressSpace(tag) ==
    /\ keys < MaxKeys
    /\ IF tag \in {"INPUT", "TEXTAREA", "SELECT"}
       THEN UNCHANGED <<pendingReqs, keys>>
       ELSE /\ keys' = keys + 1
            /\ HandleToggleInference
    /\ UNCHANGED <<connVars, sinkVars, notifTimers, frameListeners, envVars, histVars,
                   pubVars, running, uiVars>>

(* ------------------------------------------------------------------ *)
(* DashboardPage: the autopilot decision toast                        *)
(* ------------------------------------------------------------------ *)
\* The variables of the hook and of the page's start and stop controls.
hookVars == <<connVars, sinkVars, notifTimers, frameListeners, envVars, histVars,
              pubVars, dashVars>>

\* ws.decisions has changed since the toast effect last ran: React renders and
\* runs the effect again before the next event is handled.
ToastEffectPending == decisions # toast.deps

\* The toast effect runs for a new ws.decisions. The cleanup its previous run
\* returned, if any, runs first: clearTimeout(timer). Then its body:
\*   if (ws.decisions.length > lastDecisionCount.current) {
\*     setDecisionToast(latest.action);
\*     const timer = setTimeout(() => setDecisionToast(null), 4000);
\*     lastDecisionCount.current = ws.decisions.length;
\*     return () => clearTimeout(timer); }
DecisionToastEffect ==
    /\ ToastEffectPending
    /\ ui' = [ui EXCEPT !.toast = IF Len(decisions) > toast.lastDecisionCount
                THEN [decisionToast |-> decisions[Len(decisions)],
                      timer |-> TRUE,
                      lastDecisionCount |-> Len(decisions),
                      deps |-> decisions,
                      cleanup |-> TRUE]
                ELSE [toast EXCEPT !.timer = IF toast.cleanup THEN FALSE ELSE @,
                                   !.deps = decisions,
                                   !.cleanup = FALSE]]
    /\ UNCHANGED hookVars

\* The pending toast timer expires: setDecisionToast(null)
ToastTimerFires ==
    /\ toast.timer
    /\ ui' = [ui EXCEPT !.toast = [toast EXCEPT !.timer = FALSE, !.decisionToast = Null]]
    /\ UNCHANGED hookVars

(* ------------------------------------------------------------------ *)
(* ModeSelector and the shortcuts 1/2/3                               *)
(* ------------------------------------------------------------------ *)
\* const modes = ["speed", "balanced", "accuracy"]
Modes == {"speed", "balanced", "accuracy"}

\* ModeSelector.handleSelect(mode), up to its await:
\*   const prev = active; setActive(mode); api.setAutopilotMode(mode)
HandleSelect(mode) ==
    /\ Len(modeSel.reqs) < MaxRequests
    /\ ui' = [ui EXCEPT !.modeSel = [modeSel EXCEPT
                     !.active = mode,
                     !.reqs = Append(@, [mode |-> mode, prev |-> modeSel.active,
                                         selector |-> TRUE])]]
    /\ UNCHANGED hookVars

\* DashboardPage.handleSetMode(mode), up to its await: api.setAutopilotMode(mode)
\* (it captures no previous mode: the prev field of its request is never read)
HandleSetMode(mode) ==
    /\ Len(modeSel.reqs) < MaxRequests
    /\ ui' = [ui EXCEPT !.modeSel = [modeSel EXCEPT
                     !.reqs = Append(@, [mode |-> mode, prev |-> mode,
                                         selector |-> FALSE])]]

\* The i-th pending mode request is answered: the server accepts it (and holds
\* its mode from now on) or not, and the rest of its handler runs:
\*   handleSelect: onModeChange?.(mode) after success, setActive(prev) after failure;
\*   handleSetMode: nothing either way.
ModeRequestSettles(i, ok) ==
    /\ i \in 1..Len(modeSel.reqs)
    /\ LET req == modeSel.reqs[i]
       IN  ui' = [ui EXCEPT !.modeSel = [reqs |-> RemoveAt(modeSel.reqs, i),
                       serverMode |-> IF ok THEN req.mode ELSE modeSel.serverMode,
                       currentMode |-> IF ok /\ req.selector
                                       THEN req.mode
                                       ELSE modeSel.currentMode,
                       active |-> IF ~ok /\ req.selector THEN req.prev ELSE modeSel.active]]
    /\ UNCHANGED hookVars

\* A keydown of "1", "2" or "3" (mode is the key's mode) on an element with tagName
\* tag; handleKey runs: it returns at once inside a text input, else onSetMode(mode).
PressDigit(tag, mode) ==
    /\ IF tag \in {"INPUT", "TEXTAREA", "SELECT"}
       THEN UNCHANGED ui
       ELSE HandleSetMode(mode)
    /\ UNCHANGED hookVars

(* ------------------------------------------------------------------ *)
(* VideoFeed: decoding and drawing the frames                         *)
(* ------------------------------------------------------------------ *)
\* Mutant: render() starts a decode although one is in flight.
RenderIgnoresRendering(st) ==
    IF st.latest = Null
    THEN st
    ELSE [st EXCEPT !.latest = Null,
                    !.rendering = TRUE,
                    !.decodes = Append(@, st.latest)]

\* render(), on the closure state st:
\*   if (!latest || rendering) return;
\*   rendering = true; const src = latest; latest = null;
\*   const img = new Image(); ...; img.src = src;
Render(st) ==
    IF st.latest = Null \/ st.rendering
    THEN st
    ELSE [st EXCEPT !.latest = Null,
                    !.rendering = TRUE,
                    !.decodes = Append(@, st.latest)]

\* The hook invokes the callback VideoFeed subscribed, with the next frame
\* (decodable or not): latest = frame; render();
FrameArrives(decodable) ==
    /\ feed.received < MaxFeedFrames
    /\ ui' = [ui EXCEPT !.feed = Render([feed EXCEPT
                         !.received = @ + 1,
                         !.bad = IF decodable THEN @ ELSE @ \cup {feed.received + 1},
                         !.latest = feed.received + 1])]
    /\ UNCHANGED hookVars

\* The i-th decode in flight succeeds; img.onload runs:
\*   ctx.drawImage(img, 0, 0); rendering = false;
\*   if (!activated) { activated = true; setHasFrame(true); }
\*   if (latest) render();
ImgOnload(i) ==
    /\ i \in 1..Len(feed.decodes)
    /\ feed.decodes[i] \notin feed.bad
    /\ ui' = [ui EXCEPT !.feed = Render([feed EXCEPT
                         !.drawn = Append(@, feed.decodes[i]),
                         !.rendering = FALSE,
                         !.activated = TRUE,
                         !.decodes = RemoveAt(@, i)])]
    /\ UNCHANGED hookVars

\* The i-th decode in flight fails; img.onerror runs: rendering = false;
ImgOnerror(i) ==
    /\ i \in 1..Len(feed.decodes)
    /\ feed.decodes[i] \in feed.bad
    /\ ui' = [ui EXCEPT !.feed = [feed EXCEPT !.rendering = FALSE, !.decodes = RemoveAt(@, i)]]
    /\ UNCHANGED hookVars

(* ------------------------------------------------------------------ *)
(* ConfidenceSlider: the debounced configure request                  *)
(* ------------------------------------------------------------------ *)
\* Positions of the range input (min 0.1, max 0.95, step 0.05), in hundredths;
\* parseFloat(e.target.value) of a position is that number.
Confidences == {25, 30}

\* clearTimeout(id): the pending timer with that id, if any, is cancelled.
ClearTimeout(timers, id) == SelectSeq(timers, LAMBDA t : t.id # id)

\* A timer whose delay has elapsed is waiting to run.
TimerDue == \E i \in 1..Len(slider.timers) : slider.timers[i].left = 0

\* Mutant: the previous timer is not cancelled.
HandleChangeNoCancel(v) ==
    /\ slider.changes < MaxChanges
    /\ ~TimerDue
    /\ ui' = [ui EXCEPT !.slider = [slider EXCEPT
                    !.value = v,
                    !.timers = Append(@, [id |-> slider.changes + 1,
                                          left |-> DEBOUNCE_MS, v |-> v]),
                    !.timerRef = slider.changes + 1,
                    !.changes = @ + 1,
                    !.gap = 0,
                    !.burstLast = IF slider.gap < DEBOUNCE_MS
                                  THEN [@ EXCEPT ![Len(@)] = v]
                                  ELSE Append(@, v)]]
    /\ UNCHANGED hookVars

\* A change event of the range input at position v; handleChange runs (the
\* browser runs a timer that is due before it handles a later event):
\*   setValue(v);
\*   if (timerRef.current) clearTimeout(timerRef.current);
\*   timerRef.current = setTimeout(async () => {...}, 300);
HandleChange(v) ==
    /\ slider.changes < MaxChanges
    /\ ~TimerDue
    /\ ui' = [ui EXCEPT !.slider = [slider EXCEPT
                    !.value = v,
                    !.timers = Append(IF slider.timerRef # Null
                                      THEN ClearTimeout(@, slider.timerRef)
                                      ELSE @,
                                      [id |-> slider.changes + 1,
                                       left |-> DEBOUNCE_MS, v |-> v]),
                    !.timerRef = slider.changes + 1,
                    !.changes = @ + 1,
                    !.gap = 0,
                    !.burstLast = IF slider.gap < DEBOUNCE_MS
                                  THEN [@ EXCEPT ![Len(@)] = v]
                                  ELSE Append(@, v)]]
    /\ UNCHANGED hookVars

\* TickMs milliseconds pass; no timer that is due is kept waiting.
SliderTick ==
    /\ ~TimerDue
    /\ slider.timers # <<>> \/ slider.gap < DEBOUNCE_MS
    /\ ui' = [ui EXCEPT !.slider = [slider EXCEPT
                    !.timers = [i \in 1..Len(@) |->
                                  [@[i] EXCEPT !.left = IF @ > TickMs THEN @ - TickMs ELSE 0]],
                    !.gap = Min(@ + TickMs, DEBOUNCE_MS)]]
    /\ UNCHANGED hookVars

\* The i-th pending timer is due and runs:
\*   api.configureInference({ confidence_threshold: v })
\* (the answer is awaited and, on failure, only logged).
SliderTimerFires(i) ==
    /\ i \in 1..Len(slider.timers)
    /\ slider.timers[i].left = 0
    /\ ui' = [ui EXCEPT !.slider = [slider EXCEPT
                    !.timers = RemoveAt(@, i),
                    !.sent = Append(@, slider.timers[i].v)]]
    /\ UNCHANGED hookVars

(* ------------------------------------------------------------------ *)
(* Specifications                                                     *)
(* ------------------------------------------------------------------ *)
SocketIds == 1..Len(sockets)

\* The connection events of the hook and of its environment.
ConnectionStep ==
    \/ Mount
    \/ Unmount
    \/ \E s \in SocketIds : OnOpen(s)
    \/ \E s \in SocketIds : OnError(s)
    \/ \E s \in SocketIds : ServerClose(s)
    \/ \E s \in SocketIds : OnClose(s)
    \/ \E i \in 1..Len(reconnectTimers) : ReconnectTimerFires(i)

\* Spec: the whole connection lifecycle (start, teardown, restart, failures,
\* reconnection) with a short traffic of telemetry and video frames.
ConnBroadcast ==
    /\ sent < ConnEnvelopes
    /\ \E t \in ConnTypes : ServerBroadcast(t)

Next ==
    \/ ConnectionStep
    \/ ConnBroadcast
    \/ \E s \in SocketIds : OnMessage(s)
    \/ ResetState
    \/ \E cb \in ConnCallbacks : Subscribe(cb)
    \/ \E cb \in ConnCallbacks : Unsubscribe(cb)

Spec == Init /\ [][Next]_vars

\* SpecSession: one client that is started and never torn down, with failures and
\* reconnections. The browser runs every timer whose delay has elapsed, hence the
\* weak fairness of the reconnection timers.
NextSession ==
    \/ Mount
    \/ \E s \in SocketIds : OnOpen(s)
    \/ \E s \in SocketIds : OnError(s)
    \/ \E s \in SocketIds : ServerClose(s)
    \/ \E s \in SocketIds : OnClose(s)
    \/ \E i \in 1..Len(reconnectTimers) : ReconnectTimerFires(i)
    \/ ConnBroadcast
    \/ \E s \in SocketIds : OnMessage(s)
    \/ \E cb \in ConnCallbacks : Subscribe(cb)
    \/ \E cb \in ConnCallbacks : Unsubscribe(cb)

SpecSession ==
    /\ Init
    /\ [][NextSession]_vars
    /\ WF_vars(\E i \in 1..Len(reconnectTimers) : ReconnectTimerFires(i))

\* SpecStreams: one client session in which the server floods a single stream
\* type past its capacity, with resets and transient disconnects in between.
FloodBroadcast ==
    \E t \in StreamTypes :
        /\ sentOf[t] = sent
        /\ sent < CapOf(t) + MaxOverflow
        /\ ServerBroadcast(t)

NextStreams ==
    \/ Mount
    \/ \E s \in SocketIds : OnOpen(s)
    \/ \E s \in SocketIds : ServerClose(s)
    \/ \E s \in SocketIds : OnClose(s)
    \/ \E i \in 1..Len(reconnectTimers) : ReconnectTimerFires(i)
    \/ FloodBroadcast
    \/ \E s \in SocketIds : OnMessage(s)
    \/ ResetState

SpecStreams == Init /\ [][NextStreams]_vars

\* SpecRouter: one open connection carrying mixed traffic of every routed type.
RouterBroadcast ==
    /\ sent < MaxEnvelopes
    /\ \E t \in RoutedTypes : ServerBroadcast(t)

NextRouter ==
    \/ Mount
    \/ \E s \in SocketIds : OnOpen(s)
    \/ RouterBroadcast
    \/ \E s \in SocketIds : OnMessage(s)
    \/ NotificationTimerFires
    \/ ResetState
    \/ \E cb \in Callbacks : Subscribe(cb)
    \/ \E cb \in Callbacks : Unsubscribe(cb)

SpecRouter == Init /\ [][NextRouter]_vars

\* SpecNotify: one open connection carrying status envelopes (and detection
\* summaries in between), with resets. The browser runs every timer whose delay
\* has elapsed, hence the weak fairness of the auto-clear timers.
NotifyTypes == {"status", "detection_summary"}

NotifyBroadcast ==
    /\ sent < MaxEnvelopes
    /\ \E t \in NotifyTypes : ServerBroadcast(t)

NextNotify ==
    \/ Mount
    \/ \E s \in SocketIds : OnOpen(s)
    \/ NotifyBroadcast
    \/ \E s \in SocketIds : OnMessage(s)
    \/ NotificationTimerFires
    \/ ResetState

SpecNotify ==
    /\ Init
    /\ [][NextNotify]_vars
    /\ WF_vars(NotificationTimerFires)

\* SpecDecode: one open connection on which the server sends any frame: envelopes
\* of the routed types, keep-alive and unknown types, and malformed frames.
DecodeBroadcast ==
    /\ sent < MaxFrames
    /\ \/ \E t \in FrameTypes : ServerBroadcast(t)
       \/ \E f \in MalformedFrames : ServerSendsMalformed(f)

NextDecode ==
    \/ Mount
    \/ \E s \in SocketIds : OnOpen(s)
    \/ DecodeBroadcast
    \/ \E s \in SocketIds : OnMessage(s)
    \/ NotificationTimerFires
    \/ \E cb \in Callbacks : Subscribe(cb)
    \/ \E cb \in Callbacks : Unsubscribe(cb)

SpecDecode == Init /\ [][NextDecode]_vars

\* SpecPublish: one open connection carrying video frames (and a ping or a frame
\* that is not JSON in between), with the forEach of the publisher taken one
\* callback at a time: callbacks may throw, subscribe and unsubscribe. The event
\* loop runs a handler to completion: while a forEach runs, only its callbacks
\* and the network make steps.
PublishBroadcast ==
    /\ sent < MaxFrames
    /\ \/ ServerBroadcast("video_frame")
       \/ ServerBroadcast("ping")
       \/ ServerSendsMalformed(GarbageFrame)

NextPublish ==
    \/ ~publish.active /\ Mount
    \/ ~publish.active /\ \E s \in SocketIds : OnOpen(s)
    \/ PublishBroadcast
    \/ \E s \in SocketIds :
          /\ ~publish.active
          /\ inflight[s] # <<>>
          /\ ~IsVideoFrame(Head(inflight[s]))
          /\ OnMessage(s)
    \/ \E s \in SocketIds : BeginPublish(s)
    \/ CallbackReturns
    \/ CallbackThrows
    \/ \E cb \in Subscribers : CallbackSubscribes(cb)
    \/ \E k \in 1..Len(tokens) : CallbackUnsubscribes(k)
    \/ EndPublish
    \/ \E cb \in Subscribers : ComponentSubscribes(cb)
    \/ \E k \in 1..Len(tokens) : ComponentUnsubscribes(k)

SpecPublish == Init /\ [][NextPublish]_vars

\* SpecDashboard: the dashboard page over one open connection: the page mounts
\* and asks for the server's health, the user starts and stops inference and
\* presses Space, the server answers the requests and sends telemetry and
\* status envelopes. React runs the notification effect after the render that a
\* change of ws.notification causes, before the next event is handled.
DashBroadcast ==
    /\ sent < ConnEnvelopes
    /\ \E t \in {"telemetry", "status"} : ServerBroadcast(t)

NextDashboard ==
    \/ \E kind \in StatusKinds : NotificationEffect(kind)
    \/ ~NotifEffectPending /\ Mount
    \/ ~NotifEffectPending /\ \E s \in SocketIds : OnOpen(s)
    \/ ~NotifEffectPending /\ DashBroadcast
    \/ ~NotifEffectPending /\ \E s \in SocketIds : OnMessage(s)
    \/ ~NotifEffectPending /\ NotificationTimerFires
    \/ ~NotifEffectPending /\ DashboardMounts
    \/ ~NotifEffectPending /\ \E ok, r \in BOOLEAN : HealthSettles(ok, r)
    \/ ~NotifEffectPending /\ HandleStart
    \/ ~NotifEffectPending /\ HandleStop
    \/ ~NotifEffectPending
         /\ \E i \in 1..Len(pendingReqs), ok \in BOOLEAN : RequestSettles(i, ok)
    \/ ~NotifEffectPending /\ \E tag \in TargetTags : PressSpace(tag)

SpecDashboard == Init /\ [][NextDashboard]_vars

\* SpecToast: the dashboard's decision toast over one open connection on which
\* the server floods autopilot decisions past the capacity of their stream, with
\* resets early in the session. React runs the toast effect after the render
\* that a change of ws.decisions causes, before the next event is handled, and
\* the browser runs every timer whose delay has elapsed.
ToastBroadcast ==
    /\ sent < MAX_DECISIONS + MaxOverflow
    /\ ServerBroadcast("autopilot_decision")

ToastReset ==
    /\ sent < MaxEnvelopes
    /\ ResetState

NextToast ==
    \/ DecisionToastEffect
    \/ ~ToastEffectPending /\ Mount
    \/ ~ToastEffectPending /\ \E s \in SocketIds : OnOpen(s)
    \/ ~ToastEffectPending /\ ToastBroadcast
    \/ ~ToastEffectPending /\ \E s \in SocketIds : OnMessage(s)
    \/ ~ToastEffectPending /\ ToastReset
    \/ ~ToastEffectPending /\ ToastTimerFires

\* SpecMode: the user picks modes in the selector and with the shortcuts 1/2/3
\* while the server answers the requests in any order.
NextMode ==
    \/ \E mode \in Modes : HandleSelect(mode)
    \/ \E tag \in TargetTags, mode \in Modes : PressDigit(tag, mode)
    \/ \E i \in 1..Len(modeSel.reqs), ok \in BOOLEAN : ModeRequestSettles(i, ok)

SpecMode == Init /\ [][NextMode]_vars

\* SpecFeed: one mounted VideoFeed receiving frames while the browser decodes
\* them. The browser ends every decode it has started, with a load or an error
\* event, hence the weak fairness of the two events.
NextFeed ==
    \/ \E decodable \in BOOLEAN : FrameArrives(decodable)
    \/ \E i \in 1..Len(feed.decodes) : ImgOnload(i)
    \/ \E i \in 1..Len(feed.decodes) : ImgOnerror(i)

SpecFeed ==
    /\ Init
    /\ [][NextFeed]_vars
    /\ WF_vars(\E i \in 1..Len(feed.decodes) : ImgOnload(i))
    /\ WF_vars(\E i \in 1..Len(feed.decodes) : ImgOnerror(i))

\* SpecSlider: the user drags the confidence slider while time passes.
NextSlider ==
    \/ \E v \in Confidences : HandleChange(v)
    \/ SliderTick
    \/ \E i \in 1..Len(slider.timers) : SliderTimerFires(i)

SpecSlider == Init /\ [][NextSlider]_vars

SpecToast ==
    /\ Init
    /\ [][NextToast]_vars
    /\ WF_vars(DecisionToastEffect)
    /\ WF_vars(~ToastEffectPending /\ ToastTimerFires)


(* ------------------------------------------------------------------ *)
(* Bounded streams (SpecStreams)                                      *)
(* ------------------------------------------------------------------ *)
\* The last Min(Len(s), n) elements of s, in order.
LastN(s, n) ==
    LET k == Min(Len(s), n)
    IN  [i \in 1..k |-> s[Len(s) - k + i]]

\* C1: in every reachable state the telemetry history holds at most 120 records,
\* the decisions stream at most 50, the explanations stream at most 50 and the
\* suggestions stream at most 20.
C1_StreamsBounded ==
    /\ Len(telemetryHistory) <= 120
    /\ Len(decisions) <= 50
    /\ Len(explanations) <= 50
    /\ Len(suggestions) <= 20

\* C1 witness: more telemetry envelopes than the capacity have been dispatched
\* since the last reset and the history is full.
C1_Witness ==
    /\ Len(arrived["telemetry"]) > 120
    /\ Len(telemetryHistory) = 120

\* C2: every bounded stream holds exactly the last min(k, N) payloads dispatched
\* to it since the last reset, in arrival order.
C2_StreamIsLastN ==
    \A t \in StreamTypes : StreamOf(t) = LastN(arrived[t], CapOf(t))

\* C2 witness: the decisions stream has evicted at least two records.
C2_Witness ==
    /\ Len(arrived["autopilot_decision"]) >= 52
    /\ Len(decisions) = 50
    /\ Head(decisions) # Head(arrived["autopilot_decision"])

\* C3: the telemetry slot equals the last element of the telemetry history (both
\* empty when no telemetry arrived since the last reset); after telemetry
\* envelopes with timestamps 1..130 the history is exactly 11..130 and the slot
\* holds 130.
C3_TelemetrySlotIsLast ==
    /\ IF telemetryHistory = <<>>
       THEN telemetry = Null
       ELSE telemetry = telemetryHistory[Len(telemetryHistory)]
    /\ arrived["telemetry"] = [i \in 1..130 |-> i]
         => /\ telemetryHistory = [i \in 1..120 |-> i + 10]
            /\ telemetry = 130

\* C3 witness: timestamps 1..130 have been dispatched with no reset in between.
C3_Witness ==
    /\ arrived["telemetry"] = [i \in 1..130 |-> i]
    /\ telemetry = 130


(* ------------------------------------------------------------------ *)
(* Latest-value slots (SpecRouter)                                    *)
(* ------------------------------------------------------------------ *)
\* This step dispatches the oldest frame buffered on socket s.
Dispatched(s) ==
    /\ sockets' = sockets
    /\ sockets[s] = "OPEN"
    /\ inflight[s] # <<>>
    /\ inflight' = [inflight EXCEPT ![s] = Tail(@)]

\* C4: each latest-value slot (detection summary, source progress) is overwritten
\* unconditionally by every envelope of its type, emptied by a reset and changed
\* by nothing else; so it always holds the payload of the most recent envelope of
\* its type since the last reset, or is empty.
C4_SlotsHoldLatest ==
    [][ /\ \A s \in SocketIds :
             Dispatched(s) =>
               LET m == Head(inflight[s])
               IN  /\ detectionSummary' =
                        IF m.type = "detection_summary" THEN m.data ELSE detectionSummary
                   /\ sourceProgress' =
                        IF m.type = "source_progress" THEN m.data ELSE sourceProgress
        /\ ResetState => (detectionSummary' = Null /\ sourceProgress' = Null)
        /\ (~ResetState /\ ~(\E s \in SocketIds : Dispatched(s)))
             => UNCHANGED <<detectionSummary, sourceProgress>>
      ]_vars

\* C4 witness: two detection summaries were sent and dispatched; the slot holds
\* the second.
C4_Witness ==
    /\ sentOf["detection_summary"] = 2
    /\ sent = 2
    /\ detectionSummary = 2

(* ------------------------------------------------------------------ *)
(* Connection manager (Spec)                                          *)
(* ------------------------------------------------------------------ *)
\* C5: the delays scheduled since the last successful Open (or since construction)
\* are 1, 2, 4, 8, 16, 30, 30, ... seconds: never above 30 s, and 1 s first.
C5_DelaySequence ==
    \A i \in 1..Len(delays) :
        delays[i] = 1000 * (IF i <= 5 THEN <<1, 2, 4, 8, 16>>[i] ELSE 30)

\* C5 witness: seven consecutive closes without an Open, the last two capped.
C5_Witness ==
    /\ Len(delays) = 7
    /\ delays[6] = 30000
    /\ delays[7] = 30000

\* This step is a successful Open of some socket.
OpenedStep ==
    \E s \in SocketIds :
        /\ sockets[s] = "CONNECTING"
        /\ Len(sockets') = Len(sockets)
        /\ sockets'[s] = "OPEN"

\* This step schedules a reconnection.
ScheduledStep == Len(reconnectTimers') > Len(reconnectTimers)

\* C6: the retry counter is 0 right after every successful Open, it is incremented
\* by exactly one on each close that schedules a reconnection, and nothing else
\* changes it.
C6_RetryCounter ==
    [][ /\ OpenedStep => retriesRef' = 0
        /\ ScheduledStep => retriesRef' = retriesRef + 1
        /\ (~OpenedStep /\ ~ScheduledStep) => retriesRef' = retriesRef
      ]_vars

\* C6 witness: a drop and three failed reconnect attempts have been counted and
\* the next attempt is connecting (its Open is the next step).
C6_Witness ==
    /\ retriesRef = 4
    /\ \E s \in SocketIds : sockets[s] = "CONNECTING"
    /\ reconnectTimers = <<>>

\* The connection state of the hook, without the frames in flight.
lifecycleVars ==
    <<effectActive, mountedRef, wsRef, retriesRef, sockets, reconnectTimers, connected>>

\* C7: no connection transition (start, teardown, open, error, close, reconnection
\* timer firing, a new connection attempt) changes any bounded stream,
\* latest-value slot or the notification.
C7_ConnectionKeepsSinks ==
    [][lifecycleVars' # lifecycleVars => UNCHANGED sinkVars]_vars

\* C7 witness: telemetry received before a drop is still in the history after
\* three failed reconnect attempts.
C7_Witness ==
    /\ telemetryHistory # <<>>
    /\ telemetry # Null
    /\ retriesRef >= 4
    /\ ~connected


\* C8: at every moment at most one transport of the client is live (Connecting or
\* Open), over every interleaving of start, Open, error, close, reconnection-timer
\* expiry, teardown and restart.
C8_AtMostOneLive == Cardinality(Live) <= 1

NoDuplicates(q) == \A i, j \in 1..Len(q) : i < j => q[i] # q[j]

\* C9: delivery is at-most-once: no record (the server numbers each envelope it
\* broadcasts once) appears twice in a bounded stream, and no frame subscriber is
\* invoked twice with the same frame.
C9_AtMostOnce ==
    /\ \A t \in StreamTypes : NoDuplicates(StreamOf(t))
    /\ \A c \in Callbacks : NoDuplicates(frameLog[c])

\* C10: a close event delivered for a transport that existed when a teardown began
\* schedules no reconnection: it creates no reconnection timer and leaves the
\* retry counter unchanged.
C10_NoReconnectAfterTeardown ==
    [][ \A s \in SocketIds :
          (OnClose(s) /\ tornDown[s])
            => (reconnectTimers' = reconnectTimers /\ retriesRef' = retriesRef)
      ]_vars

\* C11: teardown cancels the pending reconnection timers: right after a teardown
\* no reconnection timer is pending, and the expiry of a timer that was pending
\* when a teardown began never creates a transport, restart or not.
C11_TeardownCancelsTimers ==
    [][/\ (effectActive /\ ~effectActive') => reconnectTimers' = <<>>
       /\ \A i \in 1..Len(reconnectTimers) :
              (ReconnectTimerFires(i) /\ staleTimers[i]) => Len(sockets') = Len(sockets)
      ]_vars

\* C12: once the client is torn down and the close event of its current transport
\* has been delivered, no transport is Connecting or Open and connected is false,
\* for as long as the client is not started again.
C12_TornDownIsQuiet ==
    (~effectActive /\ ~mountedRef /\ wsRef = 0) => (Live = {} /\ ~connected)

\* C13: connected is true exactly when the current transport is Open. A transport
\* whose close() has run counts as Open until its close event is delivered.
C13_ConnectedIffOpen ==
    /\ (wsRef # 0 /\ sockets[wsRef] = "OPEN") => connected
    /\ connected => (wsRef # 0 /\ sockets[wsRef] \in {"OPEN", "CLOSING"})

\* C14: while the client is not torn down, every close of its transport is
\* eventually followed by a new connection attempt, after any number of
\* consecutive failures: there is no state in which it stays closed.
C14_AlwaysReconnects ==
    (effectActive /\ sockets = <<>>) ~> (\E s \in SocketIds : sockets[s] = "CONNECTING")

\* The transport closed for the MaxRetries-th time in a row and the next attempt
\* is scheduled.
C14_Witness ==
    /\ effectActive
    /\ sockets = <<>>
    /\ retriesRef = MaxRetries
    /\ Len(reconnectTimers) = 1

\* C15: a transport error is handled as a close of that transport: the started
\* client always has either its one transport or exactly one pending
\* reconnection, and the retry counter counts the reconnections scheduled.
C15_ErrorIsOneClose ==
    /\ Len(sockets) + Len(reconnectTimers) = (IF effectActive THEN 1 ELSE 0)
    /\ retriesRef = Len(delays)

\* A telemetry envelope was lost in a transport error (sent, never dispatched and
\* no longer buffered), the close event followed and one reconnection is pending.
C15_Witness ==
    /\ sentOf["telemetry"] = 1
    /\ arrived["telemetry"] = <<>>
    /\ sockets = <<>>
    /\ Len(reconnectTimers) = 1
    /\ retriesRef = 1
    /\ ~connected

(* ------------------------------------------------------------------ *)
(* Notification slot (SpecNotify)                                     *)
(* ------------------------------------------------------------------ *)
\* C16: a notification stays visible until its own five seconds have elapsed,
\* unless a later status envelope supersedes it (or the state is reset): it is
\* never cleared by the expiry of the timer of an earlier notification.
C16_OwnTimerClears ==
    [][(notification # Null /\ notification' = Null)
         => \/ ResetState
            \/ NotificationTimerFires /\ Head(notifTimers) = notification
      ]_vars

\* C17: the notification is a single slot that clears itself: right after a
\* status envelope is handled it holds that envelope's payload, and every
\* notification eventually leaves the slot (cleared, or replaced by a later one).
C17_NotificationSelfClears ==
    /\ [][\A s \in SocketIds :
            (Dispatched(s) /\ Head(inflight[s]).type = "status")
               => notification' = Head(inflight[s]).data]_vars
    /\ \A v \in 1..MaxEnvelopes : (notification = v) ~> (notification # v)

\* The second status envelope is shown, after the first one has expired.
C17_Witness ==
    /\ sentOf["status"] = 2
    /\ notification = 2
    /\ Len(notifTimers) = 1

(* ------------------------------------------------------------------ *)
(* Decoding and routing (SpecDecode, SpecRouter)                      *)
(* ------------------------------------------------------------------ *)
\* C18: a frame that is not a well-formed envelope (text that does not decode, a
\* decoded value without a type tag, or an envelope without the data body of its
\* type) is discarded: handling it changes no sink, not the subscriber set and
\* not the connection state.
C18_MalformedIsDiscarded ==
    [][\A s \in SocketIds :
          (Dispatched(s) /\ Head(inflight[s]) \in MalformedFrames)
             => UNCHANGED <<sinkVars, frameListeners, lifecycleVars>>
      ]_vars

\* C19: an envelope whose type is ping, pong or any other type without a case is
\* ignored: no sink changes, no timer starts, no frame subscriber is invoked and
\* the connection state is untouched.
C19_UnroutedIsIgnored ==
    [][\A s \in SocketIds :
          LET m == Head(inflight[s])
          IN  (Dispatched(s) /\ m.json /\ m.type \notin RoutedTypes \cup {NoTag})
                 => UNCHANGED <<sinkVars, notifTimers, frameLog, frameListeners,
                                lifecycleVars>>
      ]_vars

\* A ping and an envelope of an unknown type were sent on the open connection and
\* handled while a frame subscriber was registered; nothing is stored or shown.
C19_Witness ==
    /\ sentOf["ping"] = 1
    /\ sentOf["unknown_tag"] = 1
    /\ \E s \in SocketIds : sockets[s] = "OPEN" /\ inflight[s] = <<>>
    /\ frameListeners # <<>>
    /\ notification = Null
    /\ \A c \in Callbacks : frameLog[c] = <<>>

\* C20: handling a routed envelope changes only the sink of its own type: every
\* stream, slot and the notification is left as it was by an envelope of another
\* type, and a video frame changes no stored state at all.
C20_OnlyOwnSink ==
    [][\A s \in SocketIds :
          Dispatched(s) =>
            LET t == Head(inflight[s]).type
            IN  /\ t # "telemetry" => UNCHANGED <<telemetry, telemetryHistory>>
                /\ t # "autopilot_decision" => UNCHANGED decisions
                /\ t # "llm_explanation" => UNCHANGED explanations
                /\ t # "advisor_suggestion" => UNCHANGED suggestions
                /\ t # "detection_summary" => UNCHANGED detectionSummary
                /\ t # "source_progress" => UNCHANGED sourceProgress
                /\ t # "status" => UNCHANGED notification
                /\ t = "video_frame" => UNCHANGED sinkVars
      ]_vars

\* An explanation, a decision and a status envelope were handled, in this order:
\* each is in its own sink and the other sinks are empty.
C20_Witness ==
    /\ explanations = <<1>>
    /\ decisions = <<2>>
    /\ notification = 3
    /\ telemetryHistory = <<>>
    /\ suggestions = <<>>
    /\ <<telemetry, detectionSummary, sourceProgress>> = <<Null, Null, Null>>

(* ------------------------------------------------------------------ *)
(* Frame publisher (SpecPublish)                                      *)
(* ------------------------------------------------------------------ *)
\* This step ends the forEach of a video frame.
PublishEnds == publish.active /\ ~publish'.active

\* This step invokes callback c.
Invoked(c) == frameLog'[c] # frameLog[c]

\* C21: for every video frame, the callbacks registered when it arrives (and not
\* unsubscribed while it is published) are each invoked exactly once with its
\* payload, in registration order, within the dispatch of that frame; callbacks
\* are invoked at no other time, so nothing is buffered for later.
C21_EachOnceInOrder ==
    [][/\ PublishEnds =>
            SelectSeq(publish.called,
                      LAMBDA c : c \in Range(publish.atStart) /\ c \notin publish.removed)
              = SelectSeq(publish.atStart, LAMBDA c : c \notin publish.removed)
       /\ \A c \in Subscribers :
            Invoked(c) => /\ publish.active
                          /\ frameLog'[c] = Append(frameLog[c], publish.frame)
      ]_vars

\* C22: a callback registered after the publish of a frame has started never
\* receives that frame: every callback invoked was registered when the publish
\* started and has stayed registered since.
C22_LateSubscriberMissesFrame ==
    [][\A c \in Subscribers :
          Invoked(c) => (c \in Range(publish.atStart) /\ c \notin publish.removed)
      ]_vars

\* C23: once the unsubscribe functions of a callback have been called, no publish
\* invokes it, not even the publish that was running when they were called: a
\* callback is invoked only while one of its subscriptions is not unsubscribed.
C23_UnsubscribedNeverInvoked ==
    [][\A c \in Subscribers :
          Invoked(c) => \E k \in 1..Len(tokens) : tokens[k].cb = c /\ ~tokens[k].invoked
      ]_vars

\* Callbacks 1 and 2 were registered when a frame arrived; callback 1 was invoked
\* and called the unsubscribe function of callback 2, which the forEach then
\* skipped.
C23_Witness ==
    /\ publish.active
    /\ publish.atStart = <<1, 2>>
    /\ publish.called = <<1>>
    /\ publish.removed = {2}
    /\ publish.todo = <<>>
    /\ frameLog[2] = <<>>

\* This step takes the oldest buffered frame of a socket: a message event.
FrameTaken ==
    /\ Len(inflight') = Len(inflight)
    /\ \E s \in SocketIds : inflight[s] # <<>> /\ inflight'[s] = Tail(inflight[s])

\* C26: handling an inbound frame (malformed, of an unknown type, or a video frame
\* whose callback throws) lets no exception out of the message handler, does not
\* close the transport and leaves the connected flag and the retry counter as
\* they were; the frames that follow are dispatched as usual.
C26_NoFailureEscapes ==
    [][(FrameTaken \/ publish.active) => (UNCHANGED lifecycleVars /\ ~uncaught')]_vars

\* The first frame sent was not JSON; the video frame sent after it was published
\* to the subscriber on the same connection, which is still open.
C26_Witness ==
    /\ sent = 2
    /\ sentOf["video_frame"] = 1
    /\ sentOf["ping"] = 0
    /\ frameLog[1] = <<2>>
    /\ \E s \in SocketIds : sockets[s] = "OPEN"
    /\ connected
    /\ ~uncaught

\* C27: when a video frame is published, every callback registered at that time
\* (and not unsubscribed meanwhile) is invoked with it, whatever the callbacks
\* invoked before it do, throwing included.
C27_DeliveryIsIndependent ==
    [][PublishEnds =>
          \A c \in Range(publish.atStart) \ publish.removed : c \in Range(publish.called)
      ]_vars

\* C29: an unsubscribe function removes only the subscription it was returned
\* for: as long as the unsubscribe function of a subscription has not been
\* called, its callback is registered and receives frames.
C29_TokenRemovesOwnSubscription ==
    \A k \in 1..Len(tokens) :
        ~tokens[k].invoked => tokens[k].cb \in Range(frameListeners)

(* ------------------------------------------------------------------ *)
(* Subscriptions and reset against the connection                     *)
(* ------------------------------------------------------------------ *)
\* C24: the set of frame subscriptions changes only through subscribe and
\* unsubscribe: no connection event, no inbound envelope and no reset adds or
\* removes a subscription.
C24_OnlySubscribeChangesListeners ==
    [][frameListeners' # frameListeners
          => \E cb \in ConnCallbacks : Subscribe(cb) \/ Unsubscribe(cb)
      ]_vars

\* The callback received a frame on one connection and is still subscribed after
\* that connection dropped and two reconnection attempts were scheduled.
C24_Witness ==
    /\ frameLog[1] = <<1>>
    /\ frameListeners = <<1>>
    /\ retriesRef >= 2
    /\ ~connected

\* C25: a reset leaves every bounded stream, every latest-value slot and the
\* notification empty, whatever they held; the first telemetry envelope handled
\* after it leaves the history with that one record and the slot holding it.
C25_ResetEmptiesSinks ==
    [][/\ ResetState =>
            /\ \A t \in StreamTypes : StreamOf(t)' = <<>>
            /\ <<telemetry', detectionSummary', sourceProgress', notification'>>
                 = <<Null, Null, Null, Null>>
       /\ \A s \in SocketIds :
            (Dispatched(s) /\ Head(inflight[s]).type = "telemetry" /\ telemetryHistory = <<>>)
               => /\ telemetryHistory' = <<Head(inflight[s]).data>>
                  /\ telemetry' = Head(inflight[s]).data
      ]_vars

\* Two telemetry envelopes were handled, the state was reset, and the third one
\* is alone in the history and in the slot.
C25_Witness ==
    /\ sentOf["telemetry"] = 3
    /\ telemetryHistory = <<3>>
    /\ telemetry = 3

\* C30: resetState touches only the sinks: the transports, the connected flag,
\* the retry counter and the pending reconnection and notification timers are
\* left as they were; a transport is created only by the start of the client or
\* by the expiry of a reconnection timer.
C30_ResetLeavesConnection ==
    [][/\ ResetState => UNCHANGED <<connVars, notifTimers>>
       /\ Len(sockets') > Len(sockets)
            => (Mount \/ \E i \in 1..Len(reconnectTimers) : ReconnectTimerFires(i))
      ]_vars

\* The telemetry envelope that was handled has been reset away, and the
\* reconnection scheduled after the connection dropped is still pending.
C30_Witness ==
    /\ sentOf["telemetry"] = 1
    /\ telemetryHistory = <<>>
    /\ telemetry = Null
    /\ sockets = <<>>
    /\ Len(reconnectTimers) = 1
    /\ retriesRef = 1

(* ------------------------------------------------------------------ *)
(* Dashboard shortcuts (SpecDashboard)                                *)
(* ------------------------------------------------------------------ *)
\* C28: pressing Space outside a text input toggles inference in both
\* directions: it requests a stop when the dashboard is running and a start when
\* it is idle.
C28_SpaceToggles ==
    [][keys' = keys + 1
          => pendingReqs' = Append(pendingReqs, IF running THEN "stop" ELSE "start")
      ]_vars

(* ------------------------------------------------------------------ *)
(* Reconnection timers (Spec)                                         *)
(* ------------------------------------------------------------------ *)
\* C31: at every moment at most one reconnection timer is pending, a
\* reconnection timer is pending only while no transport is Connecting or Open,
\* and each closed transport schedules at most one timer (timers are created one
\* at a time, each by the delivery of one transport's close event).
C31_OneTimerNoTransport ==
    [][/\ Len(reconnectTimers') <= 1
       /\ reconnectTimers' # <<>> => \A s \in 1..Len(sockets') : ~IsLive(sockets'[s])
       /\ Len(reconnectTimers') > Len(reconnectTimers)
            => /\ Len(reconnectTimers') = Len(reconnectTimers) + 1
               /\ Len(sockets') = Len(sockets) - 1
      ]_vars

(* ------------------------------------------------------------------ *)
(* The decision toast (SpecToast)                                     *)
(* ------------------------------------------------------------------ *)
\* C32: every autopilot_decision envelope that arrives makes the decision toast
\* show that decision, also when the decisions stream is at capacity and for the
\* first decisions after a reset: the effect run that follows an arrival (the
\* stream is non-empty and differs from what the effect last saw) sets the toast
\* to the newest decision.
C32_EveryDecisionToasts ==
    [][(ToastEffectPending /\ decisions # <<>>)
          => toast'.decisionToast = decisions[Len(decisions)]
      ]_vars

\* C33: every decision toast is eventually cleared: a toast that is shown leads
\* to the toast being empty, whatever decisions arrive or resets occur meanwhile.
C33_ToastEventuallyCleared ==
    (toast.decisionToast # Null) ~> (toast.decisionToast = Null)

(* ------------------------------------------------------------------ *)
(* The mode selector (SpecMode)                                       *)
(* ------------------------------------------------------------------ *)
\* C34: once all mode-change requests have settled, the highlighted mode equals
\* the mode of the last request the server accepted (the initial mode if none
\* was), for every interleaving of selections, shortcuts and answers; and a
\* failed request of the selector rolls the highlight back only to the mode the
\* server holds.
C34_HighlightIsServerMode ==
    [][/\ modeSel'.reqs = <<>> => modeSel'.active = modeSel'.serverMode
       /\ \A i \in 1..Len(modeSel.reqs) :
              (ModeRequestSettles(i, FALSE) /\ modeSel.reqs[i].selector)
                 => modeSel'.active = modeSel'.serverMode
      ]_vars

(* ------------------------------------------------------------------ *)
(* The running flag (SpecDashboard)                                   *)
(* ------------------------------------------------------------------ *)
\* C35: a failed control request never changes the running flag and resets no
\* sink when it is answered (a failed start leaves running false, a failed stop
\* leaves it true), and running becomes true only by a successful start request
\* or by a health check that reports inference running.
C35_FailureKeepsRunning ==
    [][/\ \A i \in 1..Len(pendingReqs) :
              RequestSettles(i, FALSE) => (running' = running /\ sinkVars' = sinkVars)
       /\ (~running /\ running')
            => \/ \E i \in 1..Len(pendingReqs) :
                      pendingReqs[i] = "start" /\ RequestSettles(i, TRUE)
               \/ HealthSettles(TRUE, TRUE)
      ]_vars

\* A stop request has failed and the dashboard is still running.
C35_Witness == page.lastSettled = <<"stop", FALSE>> /\ running

(* ------------------------------------------------------------------ *)
(* The video feed (SpecFeed)                                          *)
(* ------------------------------------------------------------------ *)
\* C36: at most one image decode is in flight at any time; of the frames that
\* arrive during a decode only the most recent is kept pending (it is newer than
\* the frame being decoded and is the one decoded next); and frames are drawn in
\* arrival order.
C36_OneDecodeInOrder ==
    /\ Len(feed.decodes) <= 1
    /\ feed.latest # Null => feed.latest = feed.received
    /\ \A i \in 1..Len(feed.decodes) :
          /\ feed.latest # Null => feed.decodes[i] < feed.latest
          /\ \A j \in 1..Len(feed.drawn) : feed.drawn[j] < feed.decodes[i]
    /\ \A i, j \in 1..Len(feed.drawn) : i < j => feed.drawn[i] < feed.drawn[j]

\* Two frames have been drawn and a frame that arrived between them was
\* coalesced away.
C36_Witness ==
    \E i \in 1..Len(feed.drawn) - 1 :
        /\ feed.drawn[i + 1] > feed.drawn[i] + 1
        /\ feed.drawn[i] + 1 \notin feed.bad

\* C37: the most recent frame received is eventually decoded and drawn once
\* frames stop arriving, provided its own decode succeeds, whatever happened to
\* the decodes of earlier frames: a decodable frame n that is the last received
\* leads to n being drawn or to a newer frame arriving.
C37_LastFrameIsDrawn ==
    \A n \in 1..MaxFeedFrames :
        (feed.received = n /\ n \notin feed.bad)
            ~> (n \in Range(feed.drawn) \/ feed.received > n)

====
